---- MODULE Spec2Model ----
(***************************************************************************)
(* Model of math_count_htw.py.                                             *)
(*                                                                         *)
(* The expression parser: the class Parser (a recursive-descent parser     *)
(* that evaluates while it parses) and the function parse that drives it.  *)
(* The recursion of the source is an explicit stack of frames; every       *)
(* action is one stretch of a method between two calls.  Characters are    *)
(* one-character strings, text is a sequence of them, and the cursor i is  *)
(* 0-based as in the source (text[i] there is text[i+1] here).             *)
(*                                                                         *)
(* The counting game: the module's game state, the coroutine on_message    *)
(* that Discord starts for every message, and end_game.  Every action is   *)
(* one stretch of a coroutine between two await points; parse has no await *)
(* and runs within one stretch.                                            *)
(***************************************************************************)
EXTENDS Integers, Sequences, FiniteSets, TLC

\* a parse session
VARIABLES text, i, used_digits, stack, ret, status, error, result

\* the outcomes of the earlier calls of parse
VARIABLE calls

\* the game state (lines 166-171), the clock and the coroutines in flight
VARIABLES current_count, game_started, cooldown_until, last_player_id,
          current_highscore, current_highscore_player_name, now, tasks

\* what no step of a parse session changes
outside ==
  <<calls, current_count, game_started, cooldown_until, last_player_id,
    current_highscore, current_highscore_player_name, now, tasks>>

vars == <<text, i, used_digits, stack, ret, status, error, result, outside>>

(***************************************************************************)
(* Bounds of the model.                                                    *)
(***************************************************************************)
\* every text over Alphabet of at most this length is an input
MaxLen == 3
\* numerators and denominators of the numbers kept exactly
MaxExact == 1000000000
\* binary exponent from which on a magnitude is no longer tracked
ECap == 100000
\* how many calls of parse can precede a call
MaxCalls == 2
\* the minutes the clock of the game runs
MaxTime == 5

(***************************************************************************)
(* Numbers.  Python values of type float, int and complex.                 *)
(*   k = "exact"  : the rational n/d, d > 0, in lowest terms               *)
(*   k = "approx" : n * 2^e with 2^14 <= |n| < 2^15 and the digits below   *)
(*                  cut off, a whole number too large to be kept exactly;  *)
(*                  e >= ECap means that only "larger than every float"    *)
(*                  is known of it                                         *)
(*   k = "inf", "nan" : the float infinities (n is the sign) and NaN       *)
(*   ty = "complex" : a complex number with non-zero imaginary part        *)
(* Float arithmetic on exact values is rational arithmetic.                *)
(***************************************************************************)
Abs(x) == IF x < 0 THEN 0 - x ELSE x

Sign(x) == IF x < 0 THEN 0 - 1 ELSE IF x = 0 THEN 0 ELSE 1

RECURSIVE GCD(_, _)
GCD(a, b) == IF b = 0 THEN a ELSE GCD(b, a % b)

Exact(ty, n, d) ==
  LET g == GCD(Abs(n), d)
  IN  [ty |-> ty, k |-> "exact", n |-> n \div g, d |-> d \div g, e |-> 0]

Approx(ty, n, e) ==
  [ty |-> ty, k |-> "approx", n |-> n, d |-> 1, e |-> IF e > ECap THEN ECap ELSE e]

Inf(s) == [ty |-> "float", k |-> "inf", n |-> s, d |-> 1, e |-> 0]

NaN == [ty |-> "float", k |-> "nan", n |-> 0, d |-> 1, e |-> 0]

Complex == [ty |-> "complex", k |-> "exact", n |-> 0, d |-> 1, e |-> 0]

None == [ty |-> "none", k |-> "exact", n |-> 0, d |-> 1, e |-> 0]

\* the outcome of an arithmetic step: a value, a Python exception, or a value
\* the number representation above cannot hold
Val(v) == [tag |-> "val", v |-> v, exc |-> ""]

Exc(name) == [tag |-> "exc", v |-> None, exc |-> name]

OutOfRange == [tag |-> "oor", v |-> None, exc |-> ""]

\* a * b stays within the exact range
Fits(a, b) == a = 0 \/ Abs(b) <= MaxExact \div Abs(a)

\* |x| >= 2^1024: the floats end below 2^1024
TooLargeForFloat(x) == x.k = "approx" /\ x.e + 14 >= 1024

\* n * 2^e brought to a mantissa of fifteen bits (Abs keeps the cut symmetric)
RECURSIVE Normal(_, _, _)
Normal(ty, n, e) ==
  IF Abs(n) >= 32768 THEN Normal(ty, Sign(n) * (Abs(n) \div 2), e + 1)
  ELSE IF Abs(n) < 16384 THEN Normal(ty, n * 2, e - 1)
  ELSE Approx(ty, n, e)

\* a whole number other than zero as an approximate one
ToApprox(x) == IF x.k = "approx" THEN x ELSE Normal(x.ty, x.n, 0)

IsWhole(x) == x.ty # "complex" /\ (x.k = "approx" \/ (x.k = "exact" /\ x.d = 1))

IsZero(x) == x.ty # "complex" /\ x.k = "exact" /\ x.n = 0

IsNegative(x) == x.ty # "complex" /\ x.k # "nan" /\ x.n < 0

Neg(x) == [x EXCEPT !.n = 0 - x.n]

AsType(ty, x) == [x EXCEPT !.ty = ty]

\* a Python int that float() cannot convert
HugeInt(x) == x.ty = "int" /\ TooLargeForFloat(x)

\* a float operation whose result exceeds the largest float gives an infinity
Overflowing(r) ==
  IF r.tag = "val" /\ TooLargeForFloat(r.v) THEN Val(Inf(Sign(r.v.n))) ELSE r

RECURSIVE Pow2(_)
Pow2(k) == IF k = 0 THEN 1 ELSE 2 * Pow2(k - 1)

(***************************************************************************)
(* Arithmetic on magnitudes (k = "exact" or "approx"), the result typed ty. *)
(***************************************************************************)
ApproxSum(ty, a, b) ==
  LET hi == IF a.e >= b.e THEN a ELSE b
      lo == IF a.e >= b.e THEN b ELSE a
      diff == hi.e - lo.e
      n == hi.n * Pow2(diff) + lo.n
  IN  IF hi.e >= ECap
      THEN IF lo.e >= ECap /\ Sign(lo.n) # Sign(hi.n) THEN OutOfRange
           ELSE Val(AsType(ty, hi))
      ELSE IF diff >= 16 THEN Val(AsType(ty, hi))
      ELSE IF Abs(n) < 16384 THEN OutOfRange
      ELSE Val(Normal(ty, n, lo.e))

RealAdd(ty, a, b) ==
  IF IsZero(a) THEN Val(AsType(ty, b))
  ELSE IF IsZero(b) THEN Val(AsType(ty, a))
  ELSE IF a.k = "exact" /\ b.k = "exact"
  THEN IF Fits(a.n, b.d) /\ Fits(b.n, a.d) /\ Fits(a.d, b.d)
          /\ Abs(Exact(ty, a.n * b.d + b.n * a.d, a.d * b.d).n) <= MaxExact
       THEN Val(Exact(ty, a.n * b.d + b.n * a.d, a.d * b.d))
       ELSE IF a.d = 1 /\ b.d = 1 THEN ApproxSum(ty, ToApprox(a), ToApprox(b))
       ELSE OutOfRange
  ELSE IF IsWhole(a) /\ IsWhole(b) THEN ApproxSum(ty, ToApprox(a), ToApprox(b))
  ELSE OutOfRange

RealMul(ty, a, b) ==
  IF IsZero(a) \/ IsZero(b) THEN Val(Exact(ty, 0, 1))
  ELSE IF a.k = "exact" /\ b.k = "exact" /\ Fits(a.n, b.n) /\ Fits(a.d, b.d)
  THEN Val(Exact(ty, a.n * b.n, a.d * b.d))
  ELSE IF IsWhole(a) /\ IsWhole(b)
  THEN LET x == ToApprox(a)
           y == ToApprox(b)
       IN  Val(Normal(ty, x.n * y.n, IF x.e >= ECap \/ y.e >= ECap THEN ECap ELSE x.e + y.e))
  ELSE OutOfRange

\* a / b for b # 0
RealDiv(ty, a, b) ==
  IF IsZero(a) THEN Val(Exact(ty, 0, 1))
  ELSE IF a.k = "exact" /\ b.k = "exact"
  THEN IF Fits(a.n, b.d) /\ Fits(a.d, b.n)
       THEN Val(Exact(ty, Sign(b.n) * a.n * b.d, a.d * Abs(b.n)))
       ELSE IF a.d = 1 /\ Abs(b.n) = 1 THEN RealMul(ty, a, Exact(ty, Sign(b.n) * b.d, 1))
       ELSE OutOfRange
  ELSE IF a.k = "approx" /\ a.e < ECap /\ IsWhole(b) /\ ToApprox(b).e < ECap
  THEN LET y == ToApprox(b)
           q == Normal(ty, (a.n * 32768) \div y.n, a.e - y.e - 15)
       IN  IF q.e + 14 >= 53 THEN Val(q) ELSE OutOfRange
  ELSE OutOfRange

\* a ^ k for a whole number k >= 0, by repeated squaring
RECURSIVE RealPow(_, _, _)
RealPow(ty, a, k) ==
  IF k = 0 THEN Val(Exact(ty, 1, 1))
  ELSE IF k = 1 THEN Val(AsType(ty, a))
  ELSE LET h == RealPow(ty, a, k \div 2)
           sq == IF h.tag = "val" THEN RealMul(ty, h.v, h.v) ELSE h
       IN  IF sq.tag # "val" \/ k % 2 = 0 THEN sq ELSE RealMul(ty, sq.v, a)

(***************************************************************************)
(* Python's operators on the values above.                                 *)
(***************************************************************************)
\* float + float (IEEE 754: no exception, overflow gives an infinity)
FloatAdd(a, b) ==
  IF a.k = "nan" \/ b.k = "nan" THEN Val(NaN)
  ELSE IF a.k = "inf" /\ b.k = "inf" THEN IF a.n = b.n THEN Val(a) ELSE Val(NaN)
  ELSE IF a.k = "inf" THEN Val(a)
  ELSE IF b.k = "inf" THEN Val(b)
  ELSE Overflowing(RealAdd("float", a, b))

FloatMul(a, b) ==
  IF a.k = "nan" \/ b.k = "nan" THEN Val(NaN)
  ELSE IF a.k = "inf" \/ b.k = "inf"
  THEN IF IsZero(a) \/ IsZero(b) THEN Val(NaN) ELSE Val(Inf(Sign(a.n) * Sign(b.n)))
  ELSE Overflowing(RealMul("float", a, b))

\* float / float for a divisor that is not zero
FloatDiv(a, b) ==
  IF a.k = "nan" \/ b.k = "nan" THEN Val(NaN)
  ELSE IF a.k = "inf" THEN IF b.k = "inf" THEN Val(NaN) ELSE Val(Inf(Sign(a.n) * Sign(b.n)))
  ELSE IF b.k = "inf" THEN Val(Exact("float", 0, 1))
  ELSE Overflowing(RealDiv("float", a, b))

\* val + rhs (line 51)
Add(a, b) ==
  IF a.ty = "complex" \/ b.ty = "complex"
  THEN IF HugeInt(a) \/ HugeInt(b) THEN Exc("OverflowError") ELSE Val(Complex)
  ELSE IF a.ty = "int" /\ b.ty = "int" THEN RealAdd("int", a, b)
  ELSE IF HugeInt(a) \/ HugeInt(b) THEN Exc("OverflowError")
  ELSE FloatAdd(a, b)

\* val - rhs (line 53)
Sub(a, b) == Add(a, Neg(b))

\* val * rhs (line 68)
Mul(a, b) ==
  IF a.ty = "complex" \/ b.ty = "complex"
  THEN IF HugeInt(a) \/ HugeInt(b) THEN Exc("OverflowError") ELSE Val(Complex)
  ELSE IF a.ty = "int" /\ b.ty = "int" THEN RealMul("int", a, b)
  ELSE IF HugeInt(a) \/ HugeInt(b) THEN Exc("OverflowError")
  ELSE FloatMul(a, b)

\* val / rhs (line 72); int / int is a true division whose quotient is rounded
\* to a float
Div(a, b) ==
  IF IsZero(b) THEN Exc("ZeroDivisionError")
  ELSE IF a.ty = "complex" \/ b.ty = "complex"
  THEN IF HugeInt(a) \/ HugeInt(b) THEN Exc("OverflowError") ELSE Val(Complex)
  ELSE IF a.ty = "int" /\ b.ty = "int"
  THEN LET q == RealDiv("float", a, b)
       IN  IF q.tag = "val" /\ TooLargeForFloat(q.v) THEN Exc("OverflowError") ELSE q
  ELSE IF HugeInt(a) \/ HugeInt(b) THEN Exc("OverflowError")
  ELSE FloatDiv(a, b)

\* float ** float for finite operands
FloatPow(a, b) ==
  IF IsZero(b) \/ (a.k = "exact" /\ a.n = 1 /\ a.d = 1) THEN Val(Exact("float", 1, 1))
  ELSE IF IsZero(a)
  THEN IF b.n < 0 THEN Exc("ZeroDivisionError") ELSE Val(Exact("float", 0, 1))
  ELSE IF ~IsWhole(b) THEN IF a.n < 0 THEN Val(Complex) ELSE OutOfRange
  ELSE IF b.k = "approx"
  THEN IF IsWhole(a) /\ (a.k = "approx" \/ Abs(a.n) >= 2) THEN Exc("OverflowError")
       ELSE OutOfRange
  ELSE IF b.n > 0
  THEN LET r == RealPow("float", a, b.n)
       IN  IF r.tag = "val" /\ TooLargeForFloat(r.v) THEN Exc("OverflowError") ELSE r
  ELSE IF a.k = "exact"
  THEN RealPow("float", Exact("float", Sign(a.n) * a.d, Abs(a.n)), 0 - b.n)
  ELSE OutOfRange

\* val ** rhs (line 85)
Pow(a, b) ==
  IF a.ty = "complex" \/ b.ty = "complex"
  THEN IF HugeInt(a) \/ HugeInt(b) THEN Exc("OverflowError")
       ELSE IF IsZero(a) THEN Exc("ZeroDivisionError")
       ELSE Val(Complex)
  ELSE IF a.ty = "int" /\ b.ty = "int" /\ b.n >= 0
  THEN IF b.k = "exact" THEN RealPow("int", a, b.n)
       ELSE IF a.k = "exact" /\ Abs(a.n) <= 1 THEN OutOfRange
       ELSE Exc("MemoryError")
  ELSE IF HugeInt(a) \/ HugeInt(b) THEN Exc("OverflowError")
  ELSE IF a.k \in {"inf", "nan"} \/ b.k \in {"inf", "nan"} THEN OutOfRange
  ELSE FloatPow(AsType("float", a), AsType("float", b))

\* lo * (lo + 1) * ... * hi for 1 <= lo <= hi, as an int
RECURSIVE Product(_, _)
Product(lo, hi) ==
  IF lo = hi THEN Exact("int", lo, 1)
  ELSE LET mid == (lo + hi) \div 2
       IN  RealMul("int", Product(lo, mid), Product(mid + 1, hi)).v

\* n! for 0 <= n <= 170
FactorialUpTo(n) == IF n <= 1 THEN Val(Exact("int", 1, 1)) ELSE Val(Product(1, n))

\* n > sys.maxsize = 2^63 - 1
ExceedsMaxsize(x) == x.k = "approx" /\ x.e + 14 >= 63

\* math.factorial(n) for n = int(val), val whole and not negative (lines 99-101);
\* 171! and every later factorial is larger than every float
Factorial(x) ==
  IF ExceedsMaxsize(x) THEN Exc("OverflowError")
  ELSE IF x.k = "approx" \/ x.n > 170 THEN Val(Approx("int", 16384, ECap))
  ELSE FactorialUpTo(x.n)

\* float(val).is_integer() raises for a complex val and for an int too large
FloatOf(x) ==
  IF x.ty = "complex" THEN Exc("TypeError")
  ELSE IF HugeInt(x) THEN Exc("OverflowError")
  ELSE Val(AsType("float", x))

\* float.is_integer
is_integer(x) == x.k = "approx" \/ (x.k = "exact" /\ x.d = 1)

\* lines 156-158: a whole float is returned as an int
Normalize(val) ==
  IF val.ty = "float" /\ is_integer(val) THEN AsType("int", val) ELSE val

(***************************************************************************)
(* Characters.                                                             *)
(***************************************************************************)
\* variant: the digit 0 is accepted too
allowed_digits_WithZero == {"0", "1", "2", "3", "4", "5", "6"}

allowed_digits == {"1", "2", "3", "4", "5", "6"}

DigitChars == <<"0", "1", "2", "3", "4", "5", "6", "7", "8", "9">>

\* str.isdigit, on the characters of the model
isdigit(ch) == \E k \in 1..Len(DigitChars) : DigitChars[k] = ch

\* int(digit)
DigitValue(ch) == (CHOOSE k \in 1..Len(DigitChars) : DigitChars[k] = ch) - 1

\* the backtick character (a TLA+ string cannot hold it)
Backtick == "backtick"

\* str.isspace, on the characters of the model
isspace(ch) == ch = " "

\* variant: a backtick is a character like any other
Insignificant_SpaceOnly(ch) == isspace(ch)

\* the characters _skip_spaces passes over
Insignificant(ch) == isspace(ch) \/ ch = Backtick

(***************************************************************************)
(* The inputs of the model: every text over Alphabet of length at most     *)
(* MaxLen, every chain of three operands and two operators, and the texts   *)
(* of Examples.                                                            *)
(***************************************************************************)
Alphabet ==
  {"1", "2", "3", "0", "+", "-", "*", "/", "^", "!", "(", ")", " ", Backtick, "x"}

Operands == {"0", "1", "2", "3", "4", "5", "6"}

Operators == {"+", "-", "*", "/", "^"}

Chains ==
  { <<a, o, b, p, c>> : a \in Operands, o \in Operators, b \in Operands,
                        p \in Operators, c \in Operands }

Examples ==
  { <<"4", "/", "0">>,
    <<"1", "+", "7", "+", "1">>,
    <<"(", "1", ")", "+", "1">>,
    <<"4", "/", "(", "3", "-", "2", "-", "1", ")">>,
    <<"(", "3", "-", "2", "-", "1", ")", "/", "4">>,
    <<"6", "/", "3", "/", "2">>,
    <<"(", "1", "-", "2", ")", "!">>,
    <<"(", "1", "/", "2", ")", "!">>,
    <<"(", "3", "-", "2", "-", "1", ")", "!">>,
    <<"3", "!", "!", "!", "!">>,
    <<"3", "!", "!", "!", "+", "1">>,
    <<"3", "!", "!", "!", "*", "2", "!">>,
    <<"2", "^", "3", "!", "!", "!">>,
    <<"2", "^", "3", "!", "!">>,
    <<"5", "!", "!", "!">>,
    <<"6", "^", "(", "5", "^", "4", ")">>,
    <<"(", "1", "-", "2", ")", "^", "(", "3", "/", "6", ")">>,
    <<"(", "1", "-", "2", ")", "^", "(", "3", "/", "6", ")", "*", "4">>,
    <<"(", "(", "1", "-", "2", ")", "^", "(", "3", "/", "6", ")", ")", "!">>,
    <<"(", "3", "-", "2", "-", "1", ")", "^", "(", "4", "-", "5", ")">>,
    <<"2", "^", "(", "1", "-", "3", ")">>,
    <<"5", "!", "!", "*", "6", "^", "(", "4", "!", "*", "3", "!", ")">>,
    <<"5", "*", "(", "4", "+", "3", ")", "+", "6", "!">>,
    <<"6", "^", "4", "+", "5", "*", "(", "3", "!", "+", "2", ")", "+", "1">>,
    <<"1", "+", "2", "x">>,
    <<"(", "1", "+", "2">>,
    <<" ", Backtick, "3", " ", "-", " ", "2", Backtick, " ">> }

Inputs == UNION { [1..n -> Alphabet] : n \in 0..MaxLen } \cup Chains \cup Examples

(***************************************************************************)
(* Parser: the cursor and the call stack.                                  *)
(***************************************************************************)
\* Parser._peek, at position j
_peek(j) == IF j < Len(text) THEN text[j + 1] ELSE ""

\* variant: only white space is skipped, a backtick is not
RECURSIVE _skip_spaces_OnlyBlanks(_)
_skip_spaces_OnlyBlanks(j) ==
  IF isspace(_peek(j)) THEN _skip_spaces_OnlyBlanks(j + 1) ELSE j

\* variant: the loop reads with _next, so it also passes the character that
\* ends it, or the end of the input
RECURSIVE _skip_spaces_Overshoot(_)
_skip_spaces_Overshoot(j) ==
  IF Insignificant(_peek(j)) THEN _skip_spaces_Overshoot(j + 1) ELSE j + 1

\* Parser._skip_spaces, from position j: the position it stops at
RECURSIVE _skip_spaces(_)
_skip_spaces(j) == IF Insignificant(_peek(j)) THEN _skip_spaces(j + 1) ELSE j

Frame(fn) == [fn |-> fn, pc |-> "start", val |-> None, op |-> ""]

Top == stack[Len(stack)]

At(fn, pcs) == status = "running" /\ stack # <<>> /\ Top.fn = fn /\ Top.pc \in pcs

\* the frame on top continues at pc, with val and op as given
Continue(pc, val, op) ==
  [stack EXCEPT ![Len(stack)] = [fn |-> Top.fn, pc |-> pc, val |-> val, op |-> op]]

\* call fn: the caller continues at pc when fn has returned
Call(fn, pc, val, op, j) ==
  /\ stack' = Append(Continue(pc, val, op), Frame(fn))
  /\ i' = j
  /\ ret' = None
  /\ UNCHANGED <<text, status, error, result>>

\* return val to the caller
Return(val, j) ==
  /\ stack' = SubSeq(stack, 1, Len(stack) - 1)
  /\ i' = j
  /\ ret' = val
  /\ UNCHANGED <<text, status, error, result>>

\* raise ParsingError(char, msg); kind names the message, detail its variable part
Raise(char, kind, detail, j) ==
  /\ status' = "raised"
  /\ error' = [char |-> char, kind |-> kind, detail |-> detail]
  /\ stack' = <<>>
  /\ i' = j
  /\ ret' = None
  /\ UNCHANGED <<text, result>>

\* an exception that is no ParsingError leaves parse
Escape(exc, j) ==
  /\ status' = "crashed"
  /\ error' = [char |-> "", kind |-> exc, detail |-> ""]
  /\ stack' = <<>>
  /\ i' = j
  /\ ret' = None
  /\ UNCHANGED <<text, result>>

\* the value left the range of the number representation: the session is
\* followed no further
Abandon(j) ==
  /\ status' = "out_of_range"
  /\ stack' = <<>>
  /\ i' = j
  /\ ret' = None
  /\ UNCHANGED <<text, error, result>>

(***************************************************************************)
(* The game state of the module (lines 166-171) and the coroutines.        *)
(***************************************************************************)
\* None, where the source holds a player id or a player name
NoPlayer == "none"

\* None, where the source holds a time (line 168)
NoTime == -1

\* the coroutines on_message that can be in flight together
Tasks == {"task1", "task2"}

\* a slot of tasks that holds no coroutine
Free == [pc |-> "free", author |-> NoPlayer, cooldown |-> 0]

\* lines 166-171, before the first message
GameInit ==
  /\ current_count = 0
  /\ game_started = FALSE
  /\ cooldown_until = NoTime
  /\ last_player_id = NoPlayer
  /\ current_highscore = 0
  /\ current_highscore_player_name = NoPlayer
  /\ now = 0
  /\ tasks = [t \in Tasks |-> Free]

NoError == [char |-> "", kind |-> "", detail |-> ""]

\* one call of parse on an input of the model, outside the game
Init ==
  /\ text \in Inputs
  /\ i = 0
  /\ used_digits = {}
  /\ stack = <<Frame("parse")>>
  /\ ret = None
  /\ status = "running"
  /\ error = NoError
  /\ result = None
  /\ calls = <<>>
  /\ GameInit

(***************************************************************************)
(* parse (lines 131-158)                                                   *)
(***************************************************************************)
\* variant: parse does not test for an empty input
Exhausted_Unchecked(j) == FALSE

\* parser.i >= parser.len (line 146)
Exhausted(j) == j >= Len(text)

\* lines 142-148
Parse_Begin ==
  /\ At("parse", {"start"})
  /\ LET j == _skip_spaces(i)
     IN  IF Exhausted(j)
         THEN Raise("", "EmptyInput", "", j)
         ELSE Call("parse_expression", "finish", None, "", j)
  /\ UNCHANGED used_digits
  /\ UNCHANGED outside

\* lines 149-158
Parse_Finish ==
  /\ At("parse", {"finish"})
  /\ LET j == _skip_spaces(i)
     IN  IF j # Len(text)
         THEN Raise(_peek(j), "TrailingCharacters", "", j)
         ELSE /\ status' = "returned"
              /\ result' = Normalize(ret)
              /\ stack' = <<>>
              /\ i' = j
              /\ ret' = None
              /\ UNCHANGED <<text, error>>
  /\ UNCHANGED used_digits
  /\ UNCHANGED outside

(***************************************************************************)
(* Parser.parse_expression (lines 41-56)                                   *)
(***************************************************************************)
\* line 43
Expression_First ==
  /\ At("parse_expression", {"start"})
  /\ Call("parse_term", "first", None, "", i)
  /\ UNCHANGED used_digits
  /\ UNCHANGED outside

\* lines 45-49 and 54-56
Expression_Loop ==
  /\ At("parse_expression", {"first", "loop"})
  /\ LET val == IF Top.pc = "first" THEN ret ELSE Top.val
         j == _skip_spaces(i)
         ch == _peek(j)
     IN  IF ch \in {"+", "-"}
         THEN Call("parse_term", "rhs", val, ch, j + 1)
         ELSE Return(val, j)
  /\ UNCHANGED used_digits
  /\ UNCHANGED outside

\* lines 50-53
Expression_Apply ==
  /\ At("parse_expression", {"rhs"})
  /\ LET r == IF Top.op = "+" THEN Add(Top.val, ret) ELSE Sub(Top.val, ret)
     IN  IF r.tag = "exc" THEN Escape(r.exc, i)
         ELSE IF r.tag = "oor" THEN Abandon(i)
         ELSE /\ stack' = Continue("loop", r.v, "")
              /\ ret' = None
              /\ UNCHANGED <<text, i, status, error, result>>
  /\ UNCHANGED used_digits
  /\ UNCHANGED outside

(***************************************************************************)
(* Parser.parse_term (lines 58-75)                                         *)
(***************************************************************************)
\* line 60
Term_First ==
  /\ At("parse_term", {"start"})
  /\ Call("parse_power", "first", None, "", i)
  /\ UNCHANGED used_digits
  /\ UNCHANGED outside

\* variant: the operand right of "*" or "/" is a whole term, so the
\* multiplicative level groups to the right
TermRhs_Term == "parse_term"

\* the method line 66 calls for the operand right of "*" or "/"
TermRhs == "parse_power"

\* lines 62-66 and 73-75
Term_Loop ==
  /\ At("parse_term", {"first", "loop"})
  /\ LET val == IF Top.pc = "first" THEN ret ELSE Top.val
         j == _skip_spaces(i)
         ch == _peek(j)
     IN  IF ch \in {"*", "/"}
         THEN Call(TermRhs, "rhs", val, ch, j + 1)
         ELSE Return(val, j)
  /\ UNCHANGED used_digits
  /\ UNCHANGED outside

\* variant: the divisor is never tested
DivisorIsZero_Unchecked(rhs) == FALSE

\* rhs == 0 (line 70)
DivisorIsZero(rhs) == IsZero(rhs)

\* lines 67-72
Term_Apply ==
  /\ At("parse_term", {"rhs"})
  /\ LET r == IF Top.op = "*" THEN Mul(Top.val, ret) ELSE Div(Top.val, ret)
     IN  IF Top.op = "/" /\ DivisorIsZero(ret) THEN Raise("/", "DivisionByZero", "", i)
         ELSE IF r.tag = "exc" THEN Escape(r.exc, i)
         ELSE IF r.tag = "oor" THEN Abandon(i)
         ELSE /\ stack' = Continue("loop", r.v, "")
              /\ ret' = None
              /\ UNCHANGED <<text, i, status, error, result>>
  /\ UNCHANGED used_digits
  /\ UNCHANGED outside

(***************************************************************************)
(* Parser.parse_power (lines 77-88)                                        *)
(***************************************************************************)
\* line 79
Power_First ==
  /\ At("parse_power", {"start"})
  /\ Call("parse_factor", "first", None, "", i)
  /\ UNCHANGED used_digits
  /\ UNCHANGED outside

\* variant: the operand right of "^" is a factor, so "^" does not chain
PowerRhs_Factor == "parse_factor"

\* the method line 83 calls for the operand right of "^"
PowerRhs == "parse_power"

\* lines 80-83, and line 88 when no "^" follows
Power_Caret ==
  /\ At("parse_power", {"first"})
  /\ LET j == _skip_spaces(i)
     IN  IF _peek(j) = "^"
         THEN Call(PowerRhs, "rhs", ret, "^", j + 1)
         ELSE Return(ret, j)
  /\ UNCHANGED used_digits
  /\ UNCHANGED outside

\* lines 84-88: every exception of ** becomes a ParsingError
Power_Apply ==
  /\ At("parse_power", {"rhs"})
  /\ LET r == Pow(Top.val, ret)
     IN  IF r.tag = "exc" THEN Raise("^", "InvalidPower", r.exc, i)
         ELSE IF r.tag = "oor" THEN Abandon(i)
         ELSE Return(r.v, i)
  /\ UNCHANGED used_digits
  /\ UNCHANGED outside

(***************************************************************************)
(* Parser.parse_factor (lines 90-105)                                      *)
(***************************************************************************)
\* line 92
Factor_First ==
  /\ At("parse_factor", {"start"})
  /\ Call("parse_primary", "first", None, "", i)
  /\ UNCHANGED used_digits
  /\ UNCHANGED outside

\* one iteration of the loop, lines 94-104 (with line 93 before the first)
Factor_Bang ==
  /\ At("parse_factor", {"first", "loop"})
  /\ LET val == IF Top.pc = "first" THEN ret ELSE Top.val
         j == IF Top.pc = "first" THEN _skip_spaces(i) ELSE i
         f == FloatOf(val)
         r == Factorial(val)
     IN  /\ _peek(j) = "!"
         /\ IF f.tag = "exc" THEN Escape(f.exc, j + 1)
            ELSE IF ~is_integer(f.v) \/ IsNegative(val)
            THEN Raise("!", "InvalidFactorial", "domain", j + 1)
            ELSE IF r.tag = "exc" THEN Raise("!", "InvalidFactorial", r.exc, j + 1)
            ELSE /\ stack' = Continue("loop", r.v, "")
                 /\ i' = _skip_spaces(j + 1)
                 /\ ret' = None
                 /\ UNCHANGED <<text, status, error, result>>
  /\ UNCHANGED used_digits
  /\ UNCHANGED outside

\* line 105, the loop left (with line 93 when it was never entered)
Factor_Return ==
  /\ At("parse_factor", {"first", "loop"})
  /\ LET val == IF Top.pc = "first" THEN ret ELSE Top.val
         j == IF Top.pc = "first" THEN _skip_spaces(i) ELSE i
     IN  /\ _peek(j) # "!"
         /\ Return(val, j)
  /\ UNCHANGED used_digits
  /\ UNCHANGED outside

(***************************************************************************)
(* Parser.parse_primary (lines 107-129)                                    *)
(***************************************************************************)
\* lines 109-113
Primary_Open ==
  /\ At("parse_primary", {"start"})
  /\ LET j == _skip_spaces(i)
     IN  /\ _peek(j) = "("
         /\ Call("parse_expression", "close", None, "", j + 1)
  /\ UNCHANGED used_digits
  /\ UNCHANGED outside

\* lines 114-118
Primary_Close ==
  /\ At("parse_primary", {"close"})
  /\ LET j == _skip_spaces(i)
     IN  IF _peek(j) # ")"
         THEN Raise(")", "MissingClosingParen", "", j)
         ELSE Return(ret, j + 1)
  /\ UNCHANGED used_digits
  /\ UNCHANGED outside

\* variant: no digit counts as used
IsUsed_Never(digit) == FALSE

\* digit in self.used_digits (line 123)
IsUsed(digit) == digit \in used_digits

\* variant: the digit is not recorded
RecordDigit_Forgotten(digit) == used_digits

\* self.used_digits.add(digit) (line 125): the ledger afterwards
RecordDigit(digit) == used_digits \cup {digit}

\* lines 119-126
Primary_Digit ==
  /\ At("parse_primary", {"start"})
  /\ LET j == _skip_spaces(i)
         digit == _peek(j)
     IN  /\ isdigit(digit)
         /\ IF digit \notin allowed_digits
            THEN Raise(digit, "DisallowedDigit", "", j + 1) /\ UNCHANGED used_digits
            ELSE IF IsUsed(digit)
            THEN Raise(digit, "DuplicateDigit", "", j + 1) /\ UNCHANGED used_digits
            ELSE /\ used_digits' = RecordDigit(digit)
                 /\ Return(Exact("float", DigitValue(digit), 1), j + 1)
  /\ UNCHANGED outside

\* lines 127-128
Primary_End ==
  /\ At("parse_primary", {"start"})
  /\ LET j == _skip_spaces(i)
     IN  /\ _peek(j) = ""
         /\ Raise("", "UnexpectedEnd", "", j)
  /\ UNCHANGED used_digits
  /\ UNCHANGED outside

\* line 129
Primary_Other ==
  /\ At("parse_primary", {"start"})
  /\ LET j == _skip_spaces(i)
         ch == _peek(j)
     IN  /\ ch # "(" /\ ~isdigit(ch) /\ ch # ""
         /\ Raise(ch, "DisallowedCharacter", "", j)
  /\ UNCHANGED used_digits
  /\ UNCHANGED outside

Next ==
  \/ Parse_Begin
  \/ Parse_Finish
  \/ Expression_First
  \/ Expression_Loop
  \/ Expression_Apply
  \/ Term_First
  \/ Term_Loop
  \/ Term_Apply
  \/ Power_First
  \/ Power_Caret
  \/ Power_Apply
  \/ Factor_First
  \/ Factor_Bang
  \/ Factor_Return
  \/ Primary_Open
  \/ Primary_Close
  \/ Primary_Digit
  \/ Primary_End
  \/ Primary_Other

Spec == Init /\ [][Next]_vars

(***************************************************************************)
(* Calls of parse one after the other.                                     *)
(***************************************************************************)
\* variant: the ledger is one set shared by all Parser objects
FreshLedger_Shared == used_digits

\* self.used_digits = set() (line 27)
FreshLedger == {}

\* parser = Parser(t); val = None (lines 142-143)
NewSession(t) ==
  /\ text' = t
  /\ i' = 0
  /\ used_digits' = FreshLedger
  /\ stack' = <<Frame("parse")>>
  /\ ret' = None
  /\ status' = "running"
  /\ error' = NoError
  /\ result' = None

\* what the caller of parse gets: the value returned or the exception raised
Outcome == [text |-> text, status |-> status, error |-> error, result |-> result]

Game == <<current_count, game_started, cooldown_until, last_player_id,
          current_highscore, current_highscore_player_name, now, tasks>>

\* t with the characters of w inserted behind its first p characters
Insert(t, p, w) == SubSeq(t, 1, p) \o w \o SubSeq(t, p + 1, Len(t))

\* the runs of insignificant characters inserted
Pads == {<<" ">>, <<Backtick>>, <<" ", Backtick>>, <<Backtick, " ", " ">>}

Padded(t) == {Insert(t, p, w) : p \in 0..Len(t), w \in Pads}

\* the texts that get padded
Unpadded == UNION { [1..n -> Alphabet] : n \in 0..(MaxLen - 1) } \cup Examples

\* the first call of parse returns or raises, and parse is called on a padded
\* copy of its input
Parse_Padded ==
  /\ status \in {"returned", "raised", "crashed"}
  /\ calls = <<>>
  /\ \E t \in Padded(text) : NewSession(t)
  /\ calls' = Append(calls, Outcome)
  /\ UNCHANGED Game

InitPadded == Init /\ text \in Unpadded

NextPadded == Next \/ Parse_Padded

SpecPadded == InitPadded /\ [][NextPadded]_vars

\* the texts parse is called on one after the other
CallTexts ==
  { <<>>,
    <<"x">>,
    <<"1">>,
    <<"1", "+">>,
    <<"1", "+", "2">>,
    <<"1", "+", "1">>,
    <<"6", "/", "3">>,
    <<"2", "^", "3">>,
    <<"(", "1", ")", "!">>,
    <<"3", "!", "!", "!", "!">> }

\* parse returns or raises, and is called again
Parse_Again ==
  /\ status \in {"returned", "raised", "crashed"}
  /\ Len(calls) < MaxCalls
  /\ \E t \in CallTexts : NewSession(t)
  /\ calls' = Append(calls, Outcome)
  /\ UNCHANGED Game

InitCalls == Init /\ text \in CallTexts

NextCalls == Next \/ Parse_Again

SpecCalls == InitCalls /\ [][NextCalls]_vars

(***************************************************************************)
(* The counting game: on_message (lines 194-279) and end_game (173-186).   *)
(* Discord starts one coroutine on_message per message; the coroutines     *)
(* share the event loop and the game state, and another one can run        *)
(* whenever one waits in an await.                                         *)
(***************************************************************************)
Players == {"alice", "bob"}

\* bot.user
BotUser == "bot"

\* the id of the counting channel (line 7), and another channel
COUNTING_CHANNEL_ID == "counting"

OtherChannel == "elsewhere"

\* message.content of the messages of the model
Contents ==
  { <<"s", "t", "a", "r", "t">>,
    <<" ", "S", "t", "a", "r", "t">>,
    <<"?", "r", "u", "l", "e", "s">>,
    <<"?", "h", "i", "g", "h", "s", "c", "o", "r", "e">>,
    <<"?", "x">>,
    <<"\\", "1">>,
    <<"(", "3", "-", "2", ")">>,
    <<Backtick, "2", "^", "1", Backtick>>,
    <<"1", "+">>,
    <<"3", "!", "!", "!", "*", "2">> }

Messages ==
  { [content |-> c, author |-> a, channel |-> COUNTING_CHANNEL_ID] :
      c \in Contents, a \in Players }
  \cup { [content |-> <<"1">>, author |-> BotUser, channel |-> COUNTING_CHANNEL_ID],
         [content |-> <<"1">>, author |-> "alice", channel |-> OtherChannel] }

\* str.lower, on the characters of the model
lower(ch) == IF ch = "S" THEN "s" ELSE ch

Lowered(t) == [k \in 1..Len(t) |-> lower(t[k])]

RECURSIVE lstrip(_)
lstrip(t) == IF t # <<>> /\ isspace(Head(t)) THEN lstrip(Tail(t)) ELSE t

RECURSIVE rstrip(_)
rstrip(t) ==
  IF t # <<>> /\ isspace(t[Len(t)]) THEN rstrip(SubSeq(t, 1, Len(t) - 1)) ELSE t

\* str.strip
strip(t) == rstrip(lstrip(t))

\* lines 197-199: the message is not the bot's own, does not start with a
\* backslash and is in the counting channel
Addressed(m) ==
  /\ ~(m.author = BotUser \/ m.content[1] = "\\")
  /\ m.channel = COUNTING_CHANNEL_ID

\* line 200
IsHelp(m) ==
  m.content \in {<<"?", "r", "u", "l", "e", "s">>, <<"?", "h", "e", "l", "p">>}

\* line 214
IsHighscore(m) == m.content = <<"?", "h", "i", "g", "h", "s", "c", "o", "r", "e">>

\* line 220
IsCommand(m) == m.content[1] \in {"?", "\\"}

\* the message reaches the cooldown check of line 223
Counting(m) == Addressed(m) /\ ~IsHelp(m) /\ ~IsHighscore(m) /\ ~IsCommand(m)

\* lines 223-225: a cooldown is set and has not expired
CoolingDown == cooldown_until # NoTime /\ now < cooldown_until

\* line 242
IsStart(m) == Lowered(strip(m.content)) = <<"s", "t", "a", "r", "t">>

\* variant: the author of the last count is not looked at
IsDoubleTurn_Unchecked(author) == FALSE

\* line 254
IsDoubleTurn(author) == last_player_id # NoPlayer /\ author = last_player_id

\* variant: every value counts
IsNextCount_Always(v) == TRUE

\* new_value == current_count + 1 (line 264), for a float, an int or a complex
IsNextCount(v) ==
  v.ty \in {"float", "int"} /\ v.k = "exact" /\ v.d = 1 /\ v.n = current_count + 1

\* variant: the highscore is never raised
BeatsHighscore_Never(count) == FALSE

\* current_count > current_highscore (line 268)
BeatsHighscore(count) == count > current_highscore

\* max(2, current_count + 1) (lines 259, 276 and 279)
Cooldown == IF current_count + 1 > 2 THEN current_count + 1 ELSE 2

\* no coroutine is within a stretch: the event loop can resume any of them
Idle == status = "idle"

NoSession ==
  /\ text = <<>>
  /\ i = 0
  /\ used_digits = {}
  /\ stack = <<>>
  /\ ret = None
  /\ status = "idle"
  /\ error = NoError
  /\ result = None

\* the Parser object and the result of parse are dropped
DropSession ==
  /\ text' = <<>>
  /\ i' = 0
  /\ used_digits' = {}
  /\ stack' = <<>>
  /\ ret' = None
  /\ status' = "idle"
  /\ error' = NoError
  /\ result' = None

Session == <<text, i, used_digits, stack, ret, status, error, result>>

Score == <<current_highscore, current_highscore_player_name>>

\* the coroutine of slot t waits in an await of the kind pc
Await(t, pc) == tasks' = [tasks EXCEPT ![t] = [Free EXCEPT !.pc = pc]]

\* on_message is started for m in the free slot t
Started(t, m) == Idle /\ tasks[t].pc = "free" /\ m \in Messages

\* lines 237-238: a cooldown that has expired is cleared
CooldownCleared == cooldown_until' = NoTime

\* lines 197-199 and 220-221: the message is ignored
Message_Ignored(t, m) ==
  /\ Started(t, m)
  /\ ~Addressed(m) \/ (~IsHelp(m) /\ ~IsHighscore(m) /\ IsCommand(m))
  /\ UNCHANGED vars

\* lines 200-213 and 214-219: the rules or the highscore are sent
Message_Command(t, m) ==
  /\ Started(t, m)
  /\ Addressed(m)
  /\ IsHelp(m) \/ IsHighscore(m)
  /\ Await(t, "reply")
  /\ UNCHANGED <<Session, calls, current_count, game_started, cooldown_until,
                 last_player_id, Score, now>>

\* lines 223-236: a cooldown is active
Message_Cooldown(t, m) ==
  /\ Started(t, m)
  /\ Counting(m)
  /\ CoolingDown
  /\ Await(t, "reply")
  /\ UNCHANGED <<Session, calls, current_count, game_started, cooldown_until,
                 last_player_id, Score, now>>

\* lines 223-225, 237-238 and 241-245: "start" starts a game
Message_Start(t, m) ==
  /\ Started(t, m)
  /\ Counting(m)
  /\ ~CoolingDown
  /\ ~game_started
  /\ IsStart(m)
  /\ CooldownCleared
  /\ game_started' = TRUE
  /\ Await(t, "reply")
  /\ UNCHANGED <<Session, calls, current_count, last_player_id, Score, now>>

\* lines 223-225, 237-238, 241-242 and 245-249: no game is running
Message_Paused(t, m) ==
  /\ Started(t, m)
  /\ Counting(m)
  /\ ~CoolingDown
  /\ ~game_started
  /\ ~IsStart(m)
  /\ CooldownCleared
  /\ Await(t, "reply")
  /\ UNCHANGED <<Session, calls, current_count, game_started, last_player_id,
                 Score, now>>

\* lines 223-225, 237-238, 241 and 254-255: the author of the last count
\* writes again
Message_DoubleTurn(t, m) ==
  /\ Started(t, m)
  /\ Counting(m)
  /\ ~CoolingDown
  /\ game_started
  /\ IsDoubleTurn(m.author)
  /\ CooldownCleared
  /\ Await(t, "double")
  /\ UNCHANGED <<Session, calls, current_count, game_started, last_player_id,
                 Score, now>>

\* lines 223-225, 237-238, 241, 254 and 263: parse is called
Message_Parse(t, m) ==
  /\ Started(t, m)
  /\ Counting(m)
  /\ ~CoolingDown
  /\ game_started
  /\ ~IsDoubleTurn(m.author)
  /\ CooldownCleared
  /\ NewSession(strip(m.content))
  /\ tasks' = [tasks EXCEPT ![t] = [Free EXCEPT !.pc = "parsing", !.author = m.author]]
  /\ UNCHANGED <<calls, current_count, game_started, last_player_id, Score, now>>

\* parse has returned to the coroutine of slot t or raised in it
Parsed(t, outcomes) == tasks[t].pc = "parsing" /\ status \in outcomes

\* lines 264-271: the value is the next count
Count_Accept(t) ==
  /\ Parsed(t, {"returned"})
  /\ IsNextCount(result)
  /\ current_count' = current_count + 1
  /\ last_player_id' = tasks[t].author
  /\ IF BeatsHighscore(current_count + 1)
     THEN /\ current_highscore' = current_count + 1
          /\ current_highscore_player_name' = tasks[t].author
     ELSE UNCHANGED Score
  /\ Await(t, "reply")
  /\ DropSession
  /\ UNCHANGED <<calls, game_started, cooldown_until, now>>

\* the call of end_game in slot t, up to its first await (line 175)
EndGame_Call(t) ==
  /\ tasks' = [tasks EXCEPT ![t] = [Free EXCEPT !.pc = "end_reaction", !.cooldown = Cooldown]]
  /\ UNCHANGED <<calls, current_count, game_started, cooldown_until,
                 last_player_id, Score, now>>

\* lines 264 and 272-277: the value is not the next count
Count_Wrong(t) ==
  /\ Parsed(t, {"returned"})
  /\ ~IsNextCount(result)
  /\ EndGame_Call(t)
  /\ DropSession

\* lines 278-279: parse has raised a ParsingError
Count_Error(t) ==
  /\ Parsed(t, {"raised"})
  /\ EndGame_Call(t)
  /\ DropSession

\* another exception leaves on_message; the library logs it
Count_Crash(t) ==
  /\ Parsed(t, {"crashed"})
  /\ tasks' = [tasks EXCEPT ![t] = Free]
  /\ DropSession
  /\ UNCHANGED <<calls, current_count, game_started, cooldown_until,
                 last_player_id, Score, now>>

\* lines 256-260: the await of line 255 is over
DoubleTurn_End(t) ==
  /\ Idle
  /\ tasks[t].pc = "double"
  /\ EndGame_Call(t)
  /\ UNCHANGED Session

\* end_game, lines 176 and 177: the await of line 175 or of line 176 is over
EndGame_Await(t) ==
  /\ Idle
  /\ tasks[t].pc \in {"end_reaction", "end_text"}
  /\ tasks' = [tasks EXCEPT ![t].pc = IF @ = "end_reaction" THEN "end_text" ELSE "end_summary"]
  /\ UNCHANGED <<Session, calls, current_count, game_started, cooldown_until,
                 last_player_id, Score, now>>

\* end_game, lines 181-186: the await of line 177 is over
EndGame_Reset(t) ==
  /\ Idle
  /\ tasks[t].pc = "end_summary"
  /\ current_count' = 0
  /\ game_started' = FALSE
  /\ cooldown_until' = now + tasks[t].cooldown
  /\ last_player_id' = NoPlayer
  /\ tasks' = [tasks EXCEPT ![t] = Free]
  /\ UNCHANGED <<Session, calls, Score, now>>

\* the awaits of a reply or a reaction are over and on_message returns
\* (lines 213, 217-219, 227-236, 244-245, 247-249 and 271)
Message_Replied(t) ==
  /\ Idle
  /\ tasks[t].pc = "reply"
  /\ tasks' = [tasks EXCEPT ![t] = Free]
  /\ UNCHANGED <<Session, calls, current_count, game_started, cooldown_until,
                 last_player_id, Score, now>>

\* a minute passes (datetime.datetime.now, lines 224 and 183)
Tick ==
  /\ Idle
  /\ now < MaxTime
  /\ now' = now + 1
  /\ UNCHANGED <<Session, calls, current_count, game_started, cooldown_until,
                 last_player_id, Score, tasks>>

\* on_message for m in slot t, from its start to its first await, its call of
\* parse or its return
on_message(t, m) ==
  \/ Message_Ignored(t, m)
  \/ Message_Command(t, m)
  \/ Message_Cooldown(t, m)
  \/ Message_Start(t, m)
  \/ Message_Paused(t, m)
  \/ Message_DoubleTurn(t, m)
  \/ Message_Parse(t, m)

InitGame == NoSession /\ calls = <<>> /\ GameInit

NextGame ==
  \/ Next
  \/ \E t \in Tasks, m \in Messages :
       \/ Message_Ignored(t, m)
       \/ Message_Command(t, m)
       \/ Message_Cooldown(t, m)
       \/ Message_Start(t, m)
       \/ Message_Paused(t, m)
       \/ Message_DoubleTurn(t, m)
       \/ Message_Parse(t, m)
  \/ \E t \in Tasks :
       \/ Count_Accept(t)
       \/ Count_Wrong(t)
       \/ Count_Error(t)
       \/ Count_Crash(t)
       \/ DoubleTurn_End(t)
       \/ EndGame_Await(t)
       \/ EndGame_Reset(t)
       \/ Message_Replied(t)
  \/ Tick

SpecGame == InitGame /\ [][NextGame]_vars

(***************************************************************************)
(* Properties.                                                             *)
(***************************************************************************)
\* every session stays within the range of the number representation
RangeOK == status # "out_of_range"

OneToSix == {"1", "2", "3", "4", "5", "6"}

\* the positions of text that hold ch
Occurs(ch) == {p \in 1..Len(text) : text[p] = ch}

\* the positions the cursor has passed
Consumed == 1..i

Finished == status # "running"

RaisedWith(kind, char) ==
  status = "raised" /\ error.kind = kind /\ error.char = char

HasRepeatedDigit == \E d \in OneToSix : Cardinality(Occurs(d)) >= 2

\* C1 as stated: every input in which a digit of 1..6 occurs twice fails with
\* DuplicateDigit.
C1_Original ==
  (Finished /\ HasRepeatedDigit) => (status = "raised" /\ error.kind = "DuplicateDigit")

\* C1 (amended): an input in which a digit of 1..6 occurs twice never yields a
\* value; the cursor never passes a second occurrence of a digit of 1..6
\* without the parse failing right there with DuplicateDigit for that digit
\* (the digits may be on different sides of a parenthesis); and DuplicateDigit
\* is raised for a repeated digit only.
C1_DuplicateDigit ==
  /\ HasRepeatedDigit => status # "returned"
  /\ \A p \in Consumed : \A q \in 1..(p - 1) :
       (text[q] = text[p] /\ text[p] \in OneToSix)
         => (p = i /\ RaisedWith("DuplicateDigit", text[p]))
  /\ (status = "raised" /\ error.kind = "DuplicateDigit")
       => (i >= 2 /\ error.char = text[i] /\ \E q \in 1..(i - 1) : text[q] = text[i])

C1_Witness ==
  /\ text = <<"(", "1", ")", "+", "1">>
  /\ RaisedWith("DuplicateDigit", "1")
  /\ i = 5

\* C2: used_digits is a subset of 1..6 and is exactly the set of the digits of
\* 1..6 the cursor has passed; as long as no error is raised it has one element
\* for every digit character passed (each is added once); and when parse
\* returns a value, every digit character of the input is one of 1..6 and
\* occurs once.
C2_Ledger ==
  /\ used_digits \subseteq OneToSix
  /\ used_digits = {text[p] : p \in {q \in Consumed : text[q] \in OneToSix}}
  /\ status \in {"running", "returned"}
       => Cardinality(used_digits) = Cardinality({p \in Consumed : isdigit(text[p])})
  /\ status = "returned"
       => \A p \in 1..Len(text) :
            isdigit(text[p]) => (text[p] \in OneToSix /\ Occurs(text[p]) = {p})

C2_Witness == status = "returned" /\ used_digits = OneToSix

FourOverZero == <<"4", "/", "0">>

\* C3 as stated: "4/0" fails with DivisionByZero, reporting "/" or "0".
C3_Original ==
  (text = FourOverZero /\ Finished)
    => (status = "raised" /\ error.kind = "DivisionByZero" /\ error.char \in {"/", "0"})

\* C3 (amended): "4/0" fails with DisallowedDigit, reporting "0": the divisor
\* is rejected as a digit before any division is attempted.
C3_FourOverZero ==
  (text = FourOverZero /\ Finished) => RaisedWith("DisallowedDigit", "0")

C3_Witness == text = FourOverZero /\ status = "raised" /\ i = 3

\* the parser is about to divide by the operand just returned, which is zero
DividingByZero == At("parse_term", {"rhs"}) /\ Top.op = "/" /\ IsZero(ret)

\* C4: whenever the right-hand operand of "/" has evaluated to zero, the next
\* step fails with DivisionByZero reporting "/", and a failed parse has no
\* numeric result.
C4_DivisionByZero ==
  /\ [][DividingByZero => (RaisedWith("DivisionByZero", "/") /\ result = None)']_vars
  /\ [](status = "raised" => result = None)

C4_Witness ==
  /\ text = <<"4", "/", "(", "3", "-", "2", "-", "1", ")">>
  /\ RaisedWith("DivisionByZero", "/")
  /\ used_digits = {"1", "2", "3", "4"}

\* a ^ k for a >= 1 and k >= 0, MaxExact + 1 standing for every larger value
\* (2^31 is larger already)
RECURSIVE BoundedPower(_, _)
BoundedPower(a, k) ==
  IF a = 1 \/ k = 0 THEN 1
  ELSE IF k > 31 THEN MaxExact + 1
  ELSE LET r == BoundedPower(a, k - 1)
       IN  IF r > MaxExact \div a THEN MaxExact + 1 ELSE r * a

\* the text a^b^c
PowerChain(a, b, c) == text = <<DigitChars[a + 1], "^", DigitChars[b + 1], "^", DigitChars[c + 1]>>

\* C5 as stated: "2^3^2" evaluates to 512.
C5_Original ==
  (text = <<"2", "^", "3", "^", "2">> /\ Finished)
    => (status = "returned" /\ result = Exact("int", 512, 1))

\* C5 (amended): the power operator is right-associative: for distinct digits
\* a, b, c of 1..6 the input a^b^c evaluates to a^(b^c), e.g. "4^3^2" to
\* 262144 and not to (4^3)^2 = 4096; "2^3^2" uses the digit 2 twice and fails
\* with DuplicateDigit.
C5_RightAssociative ==
  /\ \A a, b, c \in 1..6 :
       (PowerChain(a, b, c) /\ Finished /\ a # b /\ b # c /\ a # c
          /\ BoundedPower(a, BoundedPower(b, c)) <= MaxExact)
         => (status = "returned"
               /\ result = Exact("int", BoundedPower(a, BoundedPower(b, c)), 1))
  /\ (text = <<"2", "^", "3", "^", "2">> /\ Finished) => RaisedWith("DuplicateDigit", "2")

C5_Witness ==
  /\ text = <<"4", "^", "3", "^", "2">>
  /\ status = "returned"
  /\ result = Exact("int", 262144, 1)

TenKinds ==
  {"EmptyInput", "DisallowedDigit", "DuplicateDigit", "DisallowedCharacter",
   "UnexpectedEnd", "MissingClosingParen", "DivisionByZero", "InvalidPower",
   "InvalidFactorial", "TrailingCharacters"}

IsFiniteReal(x) == x.ty \in {"float", "int"} /\ x.k \in {"exact", "approx"}

\* C6: parse either returns a number or raises ParsingError with one of the ten
\* kinds: no other exception leaves it, and no infinity or NaN is returned.
C6_NoEscape ==
  /\ status # "crashed"
  /\ status = "raised" => error.kind \in TenKinds
  /\ status = "returned" => result.k \notin {"inf", "nan"}

\* C7: every power either fails with InvalidPower, reporting "^", or yields a
\* finite real number.
C7_InvalidPower ==
  [][ At("parse_power", {"rhs"})
        => \/ RaisedWith("InvalidPower", "^")'
           \/ (status' = "running" /\ IsFiniteReal(ret')) ]_vars

\* the value a postfix "!" applies to, and the position of the next
\* significant character behind it
FactorVal == IF Top.pc = "first" THEN ret ELSE Top.val

FactorPos == IF Top.pc = "first" THEN _skip_spaces(i) ELSE i

AtBang == At("parse_factor", {"first", "loop"}) /\ _peek(FactorPos) = "!"

NonNegativeWhole(x) ==
  /\ x.ty \in {"float", "int"}
  /\ \/ x.k = "approx" /\ x.n > 0
     \/ x.k = "exact" /\ x.d = 1 /\ x.n >= 0

\* C8: a postfix "!" succeeds only on a non-negative whole number, and on every
\* other value the parse fails with InvalidFactorial reporting "!"; this holds
\* for every "!" of a chain; "3!!" evaluates to 720 and "(1-2)!" fails with
\* InvalidFactorial.
C8_Factorial ==
  /\ [][ AtBang => IF NonNegativeWhole(FactorVal)
                   THEN status' = "running" => IsFiniteReal(Top.val')
                   ELSE RaisedWith("InvalidFactorial", "!")' ]_vars
  /\ []((text = <<"3", "!", "!">> /\ Finished)
          => (status = "returned" /\ result = Exact("int", 720, 1)))
  /\ []((text = <<"(", "1", "-", "2", ")", "!">> /\ Finished)
          => RaisedWith("InvalidFactorial", "!"))

HasForeignDigit == \E p \in 1..Len(text) : isdigit(text[p]) /\ text[p] \notin OneToSix

\* C9 as stated: every input in which a digit outside 1..6 appears fails with
\* DisallowedDigit.
C9_Original ==
  (Finished /\ HasForeignDigit) => (status = "raised" /\ error.kind = "DisallowedDigit")

\* C9 (amended): an input in which a digit character outside 1..6 appears never
\* yields a value; the cursor never passes such a digit without the parse
\* failing right there with DisallowedDigit reporting it; and DisallowedDigit
\* is raised for such a digit only.  When another error stops the parse before
\* the digit is reached, that error is reported.
C9_DisallowedDigit ==
  /\ HasForeignDigit => status # "returned"
  /\ \A p \in Consumed :
       (isdigit(text[p]) /\ text[p] \notin OneToSix)
         => (p = i /\ RaisedWith("DisallowedDigit", text[p]))
  /\ (status = "raised" /\ error.kind = "DisallowedDigit")
       => (i >= 1 /\ error.char = text[i] /\ isdigit(text[i]) /\ text[i] \notin OneToSix)

C9_Witness ==
  /\ text = <<"1", "+", "7", "+", "1">>
  /\ RaisedWith("DisallowedDigit", "7")
  /\ i = 3

\* the positions from the cursor on that hold a significant character
Rest == {p \in (i + 1)..Len(text) : text[p] \notin {" ", Backtick}}

Min(S) == CHOOSE x \in S : \A y \in S : x <= y

\* C10: parse returns a value only from the step that follows its one call of
\* parse_expression, and only if nothing but white space and backticks is left
\* from the cursor to the end of the input; if something else is left, that
\* step fails with TrailingCharacters reporting the first such character.
C10_Trailing ==
  [][ /\ At("parse", {"finish"})
        => IF Rest = {}
           THEN status' = "returned" /\ i' = Len(text)
           ELSE RaisedWith("TrailingCharacters", text[Min(Rest)])'
      /\ status' = "returned" => (At("parse", {"finish"}) /\ Rest = {}) ]_vars

C10_Witness ==
  /\ text = <<"1", "+", "2", "x">>
  /\ RaisedWith("TrailingCharacters", "x")
  /\ used_digits = {"1", "2"}
\* the first significant character from the cursor on ("" at the end)
Ahead == IF Rest = {} THEN "" ELSE text[Min(Rest)]

AtOperand == At("parse_primary", {"start"})

\* C11: structural failures are classified by kind.  An input without a
\* significant character fails with EmptyInput; an opened parenthesis whose
\* sub-expression is not followed by ")" fails with MissingClosingParen; an
\* operand position at the end of the input fails with UnexpectedEnd; an
\* operand position holding a character that is neither a digit nor "(" fails
\* with DisallowedCharacter reporting that character.  "(1+2", "1+" and "+1"
\* are such inputs.
C11_Structural ==
  /\ []((Finished /\ Occurs(" ") \cup Occurs(Backtick) = 1..Len(text))
          => RaisedWith("EmptyInput", ""))
  /\ [][ /\ (At("parse_primary", {"close"}) /\ Ahead # ")")
            => (status' = "raised" /\ error'.kind = "MissingClosingParen")
         /\ (AtOperand /\ Ahead = "") => RaisedWith("UnexpectedEnd", "")'
         /\ (AtOperand /\ Ahead \notin {"", "(", "0", "1", "2", "3", "4", "5",
                                         "6", "7", "8", "9"})
            => RaisedWith("DisallowedCharacter", Ahead)' ]_vars
  /\ []((text = <<"(", "1", "+", "2">> /\ Finished)
          => (status = "raised" /\ error.kind = "MissingClosingParen"))
  /\ []((text = <<"1", "+">> /\ Finished) => RaisedWith("UnexpectedEnd", ""))
  /\ []((text = <<"+", "1">> /\ Finished) => RaisedWith("DisallowedCharacter", "+"))

C11_Witness ==
  /\ text = <<"(", "1", "+", "2">>
  /\ status = "raised"
  /\ error.kind = "MissingClosingParen"
  /\ used_digits = {"1", "2"}

\* x op y, for an operator of the additive or the multiplicative level
Applied(op, x, y) ==
  IF op = "+" THEN Add(x, y).v
  ELSE IF op = "-" THEN Sub(x, y).v
  ELSE IF op = "*" THEN Mul(x, y).v
  ELSE Div(x, y).v

\* a o b p c as arithmetic groups it: "*" and "/" bind tighter than "+" and
\* "-", and operators of one level group from the left
Grouped(a, o, b, p, c) ==
  IF o \in {"+", "-"} /\ p \in {"*", "/"}
  THEN Applied(o, a, Applied(p, b, c))
  ELSE Applied(p, Applied(o, a, b), c)

Operand(p) == Exact("float", DigitValue(text[p]), 1)

\* text is a o b p c for three different digits of 1..6 and two operators
\* among + - * /
IsArithmeticChain ==
  /\ Len(text) = 5
  /\ {text[1], text[3], text[5]} \subseteq OneToSix
  /\ Cardinality({text[1], text[3], text[5]}) = 3
  /\ {text[2], text[4]} \subseteq {"+", "-", "*", "/"}

\* C12: precedence and left-associativity give the documented values:
\* "5*(4+3)+6!" evaluates to 755, "6^4+5*(3!+2)+1" to 1337, "3-2" to 1 and
\* "6/3/2" to 1, each as an int; and every a o b p c over three different
\* digits and the operators + - * / evaluates to what the grouping of
\* arithmetic gives, a whole value as an int.
C12_Precedence ==
  /\ (Finished /\ IsArithmeticChain)
       => /\ status = "returned"
          /\ result = Normalize(Grouped(Operand(1), text[2], Operand(3), text[4], Operand(5)))
  /\ (Finished /\ text = <<"5", "*", "(", "4", "+", "3", ")", "+", "6", "!">>)
       => (status = "returned" /\ result = Exact("int", 755, 1))
  /\ (Finished /\ text = <<"6", "^", "4", "+", "5", "*", "(", "3", "!", "+", "2", ")", "+", "1">>)
       => (status = "returned" /\ result = Exact("int", 1337, 1))
  /\ (Finished /\ text = <<"3", "-", "2">>)
       => (status = "returned" /\ result = Exact("int", 1, 1))
  /\ (Finished /\ text = <<"6", "/", "3", "/", "2">>)
       => (status = "returned" /\ result = Exact("int", 1, 1))

C12_Witness ==
  /\ text = <<"6", "^", "4", "+", "5", "*", "(", "3", "!", "+", "2", ")", "+", "1">>
  /\ status = "returned"
  /\ result = Exact("int", 1337, 1)

\* the significant characters of t
Significant(t) == SelectSeq(t, LAMBDA ch : ch \notin {" ", Backtick})

SameOutcome(c) ==
  c.status = status /\ c.error = error /\ c.result = result

\* C13: white space and backticks are insignificant: an input and a copy of it
\* with white space and backticks inserted before the first, between any two
\* or behind the last of its characters have the same outcome: the same value,
\* or the same exception with the same offending character.
C13_Insignificant ==
  \A k \in 1..Len(calls) :
    (status # "running" /\ Significant(calls[k].text) = Significant(text))
      => SameOutcome(calls[k])

C13_Witness ==
  /\ calls # <<>>
  /\ calls[1].text = <<"1", "!">>
  /\ text = <<"1", " ", Backtick, "!">>
  /\ status = "returned"

\* C14: every call of parse owns a fresh cursor and a fresh digit ledger: a
\* call starts at position 0 with no digit used, whatever was parsed before;
\* the ledger never holds a digit the call has not passed in its own input;
\* and two calls on the same input, with any calls between them, have the same
\* outcome.
C14_Fresh ==
  /\ At("parse", {"start"}) => (i = 0 /\ used_digits = {})
  /\ used_digits \subseteq {text[p] : p \in Consumed}
  /\ \A k \in 1..Len(calls) :
       (status # "running" /\ calls[k].text = text) => SameOutcome(calls[k])

C14_Witness ==
  /\ Len(calls) = 2
  /\ calls[1].text = <<"1", "+", "2">>
  /\ calls[2].text = <<"1", "+", "1">>
  /\ text = <<"1", "+", "2">>
  /\ status = "returned"
  /\ result = Exact("int", 3, 1)

\* C17: during a parse session the cursor stays within 0..len(text) and never
\* moves backward; as _next alone moves it, by one character, it is never
\* executed at the end of the input.
C17_Cursor ==
  /\ [](0 <= i /\ i <= Len(text))
  /\ [][i' >= i]_vars

C17_Witness ==
  /\ text = <<" ", Backtick, "3", " ", "-", " ", "2", Backtick, " ">>
  /\ status = "returned"
  /\ i = 9

(***************************************************************************)
(* Properties of the game.                                                 *)
(***************************************************************************)
\* a step that accepts a count
Accepting == current_count' = current_count + 1

\* the coroutine of slot t has judged its message game-ending and has not yet
\* reset the game
Ending(t) == tasks[t].pc \in {"double", "end_reaction", "end_text", "end_summary"}

\* the step in which end_game, called in slot t, resets the game
Resetting(t) == tasks[t].pc = "end_summary" /\ tasks'[t].pc = "free"

WasReset ==
  /\ current_count' = 0
  /\ game_started' = FALSE
  /\ last_player_id' = "none"

\* a step in which on_message is started in slot t and does not return at once
Begun(t) == tasks[t].pc = "free" /\ tasks'[t].pc # "free"

\* m is a counting message that arrives in a running game from the author of
\* the last count
DoubleTurnOf(m) ==
  /\ m.channel = "counting"
  /\ m.author \in Players
  /\ m.content[1] \notin {"?", "\\"}
  /\ game_started
  /\ m.author = last_player_id

\* C15: a player may not count twice in a row.  A count is accepted only from
\* an author other than the one stored in last_player_id, who is stored then,
\* and last_player_id changes otherwise only when a game end clears it, so no
\* two consecutive accepted counts of a game have one author.  A counting
\* message that arrives in a running game from the author stored in
\* last_player_id is not evaluated: no parse is started, and its coroutine can
\* go on only through end_game, whose last step resets current_count to 0,
\* game_started to false and last_player_id to none and sets a cooldown.
C15_DoubleTurn ==
  [][ /\ Accepting => (last_player_id' # last_player_id /\ last_player_id' \in Players)
      /\ (last_player_id' # last_player_id /\ ~Accepting) => WasReset
      /\ \A t \in Tasks, m \in Messages :
           (Begun(t) /\ DoubleTurnOf(m) /\ on_message(t, m))
             => /\ tasks'[t].pc = "double"
                /\ status' = "idle"
                /\ current_count' = current_count
      /\ \A t \in Tasks :
           /\ (tasks[t].pc = "double" /\ tasks'[t] # tasks[t])
                => tasks'[t].pc = "end_reaction"
           /\ (tasks[t].pc = "end_reaction" /\ tasks'[t] # tasks[t])
                => tasks'[t].pc = "end_text"
           /\ (tasks[t].pc = "end_text" /\ tasks'[t] # tasks[t])
                => tasks'[t].pc = "end_summary"
           /\ (tasks[t].pc = "end_summary" /\ tasks'[t] # tasks[t])
                => (WasReset /\ cooldown_until' > now) ]_vars

C15_Witness ==
  /\ current_count = 2
  /\ last_player_id = "bob"
  /\ \E t \in Tasks : tasks[t].pc = "double"

\* C16: once a message has been judged game-ending, no other message is
\* accepted as a valid count before that game end has reset the game.
C16_OneAtATime ==
  [][ (\E t \in Tasks : Ending(t)) => ~Accepting ]_vars

\* the value parse has returned is whole and equal to n
ValueIs(n) ==
  /\ status = "returned"
  /\ result.ty \in {"float", "int"}
  /\ result.k = "exact"
  /\ result.d = 1
  /\ result.n = n

\* C18: current_count changes in two ways only.  It grows by one when, in a
\* started game with no cooldown set, the message of an author other than
\* last_player_id has evaluated to current_count + 1, and that author becomes
\* last_player_id; or the last step of end_game resets it to 0.  The first
\* stretch of on_message never changes it, and a command, a message during a
\* cooldown and a message while no game is started end there with a reply at
\* most.
C18_CountChanges ==
  [][ /\ current_count' # current_count
           => \/ /\ Accepting
                 /\ game_started
                 /\ cooldown_until = -1
                 /\ \E t \in Tasks :
                      /\ tasks[t].pc = "parsing"
                      /\ tasks[t].author # last_player_id
                      /\ last_player_id' = tasks[t].author
                 /\ ValueIs(current_count + 1)
              \/ /\ current_count' = 0
                 /\ \E t \in Tasks : Resetting(t)
      /\ \A t \in Tasks :
           Begun(t)
             => /\ current_count' = current_count
                /\ ((cooldown_until # -1 /\ now < cooldown_until) \/ ~game_started)
                     => tasks'[t].pc = "reply"
                /\ \A m \in Messages :
                     (m.content[1] \in {"?", "\\"} /\ on_message(t, m))
                       => tasks'[t].pc = "reply"
      /\ \A t \in Tasks :
           tasks[t].pc = "reply" => tasks'[t].pc \in {"reply", "free"} ]_vars

C18_Witness ==
  /\ current_count = 2
  /\ last_player_id = "alice"
  /\ current_highscore = 2
  /\ game_started

Max(a, b) == IF a >= b THEN a ELSE b

\* C19: every game end sets a cooldown of max(2, count reached + 1) minutes;
\* while a cooldown has not expired no step sets game_started to true or
\* changes current_count; a game begins only with a "start" message received
\* when no cooldown is active.
C19_Cooldown ==
  [][ /\ \A t \in Tasks :
           Resetting(t) => cooldown_until' = now + Max(2, current_count + 1)
      /\ (cooldown_until # -1 /\ now < cooldown_until)
           => (current_count' = current_count /\ ~game_started')
      /\ (game_started' /\ ~game_started)
           => /\ ~(cooldown_until # -1 /\ now < cooldown_until)
              /\ \E t \in Tasks, m \in Messages :
                   /\ Begun(t)
                   /\ Lowered(strip(m.content)) = <<"s", "t", "a", "r", "t">>
                   /\ on_message(t, m) ]_vars

\* C20: 0 <= current_count <= current_highscore; current_highscore never
\* decreases, a game end included; current_highscore_player_name is set
\* whenever current_highscore > 0.
C20_Highscore ==
  /\ [](0 <= current_count /\ current_count <= current_highscore)
  /\ [](current_highscore > 0 => current_highscore_player_name \in Players)
  /\ [][current_highscore' >= current_highscore]_vars

C20_Witness ==
  /\ current_count = 0
  /\ ~game_started
  /\ current_highscore = 2
  /\ current_highscore_player_name = "bob"

====
